---- MODULE Spec2Model ----
(***************************************************************************)
(* Groqchat: the conversation controller of the two front ends.            *)
(*   variant "simple" : src/unnamed/part_000 (plain chat)                  *)
(*   variant "phase"  : src/js/script.js     (topic setting, discussion)   *)
(* Text is a sequence of one-character strings; a fixed template fragment  *)
(* of the source (a literal of several characters that holds no markup     *)
(* character) is one token of that sequence.                               *)
(***************************************************************************)
EXTENDS Integers, Sequences, FiniteSets, TLC

VARIABLES
    variant,       \* which front end runs: "simple" or "phase"
    apiKey,        \* state.apiKey
    model,         \* state.model
    phase,         \* state.phase ("NONE" in the simple variant: no such field)
    topic,         \* state.topic
    history,       \* state.history
    autoSpeak,     \* state.autoSpeak
    isSpeaking,    \* state.isSpeaking
    localStorage,  \* the two persisted settings
    topicDisplay,  \* elements.topicDisplay.textContent
    chat,          \* children of elements.chatContainer, in document order
    pending,       \* fetch calls issued and not yet answered
    netCalls,      \* number of fetch calls issued so far
    queue,         \* utterances held by window.speechSynthesis
    cancelled,     \* the last event of a cancelled utterance is not yet fired
    lastOp         \* the last run of handleSend or of its continuation, with
                   \* its input, and the text of the alert it raised

vars == <<variant, apiKey, model, phase, topic, history, autoSpeak,
          isSpeaking, localStorage, topicDisplay, chat, pending, netCalls,
          queue, cancelled, lastOp>>

\* ------------------------------------------------------------ bounds ----
\* accepted submissions (each issues one fetch) explored per behaviour
MaxTurns == 2
\* fragments of a narrated reply
MaxPieces == 4

\* ------------------------------------------------------------- text -----
Whitespace == {" ", "\t", "\n"}

RECURSIVE TrimStart(_)
TrimStart(s) ==
    IF s # <<>> /\ Head(s) \in Whitespace THEN TrimStart(Tail(s)) ELSE s

RECURSIVE TrimEnd(_)
TrimEnd(s) ==
    IF s # <<>> /\ s[Len(s)] \in Whitespace
    THEN TrimEnd(SubSeq(s, 1, Len(s) - 1)) ELSE s

\* String.prototype.trim
Trim(s) == TrimEnd(TrimStart(s))

\* the texts typed into the input box
RawTexts == {<<" ", "\n">>, <<" ", "a", " ", "b", "\t">>}

\* a value that is not a string: a property read that yields undefined
Undefined == <<"undefined">>

ThinkOpen  == <<"<", "t", "h", "i", "n", "k", ">">>
ThinkClose == <<"<", "/", "t", "h", "i", "n", "k", ">">>

\* s has the literal t at position i
MatchAt(s, t, i) ==
    /\ i + Len(t) - 1 <= Len(s)
    /\ \A k \in 1..Len(t) : s[i + k - 1] = t[k]

\* the text t occurs in s
Contains(s, t) == \E i \in 1..(Len(s) + 1) : MatchAt(s, t, i)

\* smallest position >= i where t occurs in s, 0 when there is none
RECURSIVE FindFrom(_, _, _)
FindFrom(s, t, i) ==
    IF i + Len(t) - 1 > Len(s) THEN 0
    ELSE IF MatchAt(s, t, i) THEN i ELSE FindFrom(s, t, i + 1)

\* text.replace(/<think>[\s\S]*?<\/think>/g, '')
RECURSIVE StripThink(_)
StripThink(s) ==
    LET o == FindFrom(s, ThinkOpen, 1) IN
    IF o = 0 THEN s
    ELSE LET c == FindFrom(s, ThinkClose, o + Len(ThinkOpen)) IN
         IF c = 0 THEN s
         ELSE SubSeq(s, 1, o - 1)
              \o StripThink(SubSeq(s, c + Len(ThinkClose), Len(s)))

\* the backquote character (a string of the module cannot hold it)
Backquote == "BACKQUOTE"

MarkupChars == {"*", "#", Backquote}

\* text.replace(/[*#BACKQUOTE]/g, '')
StripMarkup(s) == SelectSeq(s, LAMBDA c : c \notin MarkupChars)

\* the literals of the source that hold a Hiragana or Katakana character
KanaTokens == {"TopicSetHead", "TopicSetTail", "BeginHead", "BeginTail",
               "StartMessage", "SysHead", "SysTail"}

\* /[\u3040-\u309F\u30A0-\u30FF]/.test(cleanText)
HasJapanese(s) == \E i \in 1..Len(s) : s[i] \in KanaTokens

\* ------------------------------------------------- program constants ----
MODELS == << <<"llama-3.3-70b-versatile">>, <<"llama-3.1-8b-instant">>,
            <<"deepseek-r1-distill-llama-70b">>,
            <<"deepseek-r1-distill-qwen-32b">> >>

ModelIds == {MODELS[i] : i \in 1..Len(MODELS)}

GROQ_API_URL == "https://api.groq.com/openai/v1/chat/completions"

\* temperature: 0.7, in tenths
TemperatureTenths == 7

\* max_tokens of the request
MaxTokens(v) == IF v = "simple" THEN 1024 ELSE 2048

\* localStorage.getItem of a key that was never set
Null == <<"null">>

\* ------------------------------------------------ template literals -----
\* `題目: ${text}`
TopicLabel(text) == <<"TopicLabel">> \o text

\* `題目を「${text}」に設定しました。...`
TopicSetNotice(text) == <<"TopicSetHead">> \o text \o <<"TopicSetTail">>

\* `題目は「${text}」です。... 協議を開始してください。`
BeginConsultation(text) == <<"BeginHead">> \o text \o <<"BeginTail">>

StartMessage == <<"StartMessage">>

\* the system prompt of a request
SystemContent(v, t) ==
    IF v = "simple" THEN <<"You are a helpful AI assistant.">>
    ELSE <<"SysHead">> \o t \o <<"SysTail">>

Message(role, content) == [role |-> role, content |-> content]

\* ---------------------------------------------------------- the chat ----
\* class of the rendered div
RenderClass(role) ==
    IF role = "assistant" THEN "ai"
    ELSE IF role = "system" THEN "system" ELSE "user"

Rendered(role, content) ==
    [id |-> "", cls |-> RenderClass(role), content |-> content]

renderMessage(c, role, content) == Append(c, Rendered(role, content))

LoadingDiv ==
    [id |-> "loading-indicator", cls |-> "ai", content |-> <<"Thinking...">>]

showLoading(c) == Append(c, LoadingDiv)

\* position of the first element with id 'loading-indicator', 0 if none
RECURSIVE FirstLoading(_, _)
FirstLoading(c, i) ==
    IF i > Len(c) THEN 0
    ELSE IF c[i].id = "loading-indicator" THEN i ELSE FirstLoading(c, i + 1)

removeLoading(c) ==
    LET i == FirstLoading(c, 1) IN
    IF i = 0 THEN c ELSE SubSeq(c, 1, i - 1) \o SubSeq(c, i + 1, Len(c))

\* ------------------------------------------------------- narration ------
\* window.speechSynthesis.cancel(): q is the queue, n tells whether the
\* engine has still to call the handlers of an utterance removed earlier (the
\* utterances of the phase variant carry no handler)
Cancel(v, q, n) ==
    [queue |-> <<>>, cancelled |-> n \/ (v = "simple" /\ q # <<>>)]

\* CleanText that strips the markup characters only, in both variants
CleanText_MarkupOnly(v, text) == StripMarkup(text)

\* the text handed to the engine
CleanText(v, text) ==
    IF v = "simple" THEN StripMarkup(text) ELSE StripMarkup(StripThink(text))

Utterance(v, text) ==
    LET cleanText == CleanText(v, text) IN
    [text |-> cleanText,
     lang |-> IF HasJapanese(cleanText) THEN "ja-JP" ELSE "en-US",
     started |-> FALSE]

\* speakText(text); text.replace throws a TypeError when text is no string
speakText(v, text, q, n) ==
    LET c == Cancel(v, q, n) IN
    IF text = Undefined
    THEN [queue |-> c.queue, cancelled |-> c.cancelled, threw |-> TRUE]
    ELSE [queue |-> Append(c.queue, Utterance(v, text)),
          cancelled |-> c.cancelled, threw |-> FALSE]

ReplaceOfUndefined == <<"Cannot read properties of undefined (reading 'replace')">>

\* --------------------------------------------------- the endpoint -------
ReplyTexts == { ThinkOpen \o <<"s">> \o ThinkClose \o <<"H", "#">> }

ErrorTexts == { <<"invalid_api_key">> }

NoText == <<>>

\* what the endpoint (or the network) can answer to one request
Responses ==
    {[kind |-> "network_failure", ok |-> FALSE, shape |-> "none",
      text |-> NoText]}
    \cup {[kind |-> "http", ok |-> TRUE, shape |-> sh, text |-> NoText] :
            sh \in {"no_choices", "no_content"}}
    \cup {[kind |-> "http", ok |-> TRUE, shape |-> "completion", text |-> t] :
            t \in ReplyTexts}
    \cup {[kind |-> "http", ok |-> FALSE, shape |-> sh, text |-> NoText] :
            sh \in {"error_no_message"}}
    \cup {[kind |-> "http", ok |-> FALSE, shape |-> "error", text |-> t] :
            t \in ErrorTexts}

NoResponse ==
    [kind |-> "none", ok |-> FALSE, shape |-> "none", text |-> NoText]

FailedToFetch == <<"Failed to fetch">>
ChoicesOfUndefined == <<"Cannot read properties of undefined (reading '0')">>
ApiRequestFailed == <<"API Request Failed">>

\* err.error?.message || 'API Request Failed'
ErrorMessageOf(resp) ==
    IF resp.shape = "error" /\ resp.text # <<>> THEN resp.text
    ELSE ApiRequestFailed

\* BuildMessages with the system prompt pushed behind the history
BuildMessages_SystemLast(v, t, h) ==
    h \o <<Message("system", SystemContent(v, t))>>

\* messages of the request body: the system prompt, then the history
BuildMessages(v, t, h) == <<Message("system", SystemContent(v, t))>> \o h

\* the fetch call of fetchGroqCompletion
Request(id, caller, v, key, m, t, h) ==
    [id |-> id, caller |-> caller, url |-> GROQ_API_URL,
     authorization |-> <<"Bearer ">> \o key,
     model |-> m, messages |-> BuildMessages(v, t, h),
     temperature |-> TemperatureTenths, max_tokens |-> MaxTokens(v)]

\* fetchGroqCompletion after the await: the value returned or the message
\* of the Error thrown
FetchResult(resp) ==
    IF resp.kind = "network_failure"
    THEN [threw |-> TRUE, value |-> FailedToFetch]
    ELSE IF ~resp.ok
    THEN [threw |-> TRUE, value |-> ErrorMessageOf(resp)]
    ELSE IF resp.shape = "completion"
    THEN [threw |-> FALSE, value |-> resp.text]
    ELSE IF resp.shape = "no_content"
    THEN [threw |-> FALSE, value |-> Undefined]
    ELSE [threw |-> TRUE, value |-> ChoicesOfUndefined]

\* `Error: ${error.message}`
ErrorLine(msg) == <<"Error: ">> \o msg

\* ------------------------------------------------------ the state -------
Op(op, text, req, resp, alert) ==
    [op |-> op, text |-> text, req |-> req, resp |-> resp, alert |-> alert]

NoAlert == <<>>

\* no run of handleSend or of its continuation yet
Idle == Op("none", NoText, 0, NoResponse, NoAlert)
KeyMissingAlert(v) ==
    IF v = "simple" THEN <<"Please set your Groq API Key first.">>
    ELSE <<"KeyMissingAlertJa">>

StoredKeys == {Null, <<"k">>}
StoredModels == {<<"retired-model">>}
\* the options of the model select that the user picks
PickedModels == {MODELS[1]}
RawKeys == {<<" ">>, <<" ", "k", " ">>}

\* the state literal, then init(): the saved settings are read, and the
\* phase variant renders its opening system message
Init ==
    /\ variant \in {"simple", "phase"}
    /\ localStorage \in [groq_api_key : StoredKeys, groq_model : StoredModels]
    /\ apiKey = IF localStorage.groq_api_key # Null
                THEN localStorage.groq_api_key ELSE <<>>
    /\ model = IF localStorage.groq_model \in ModelIds
               THEN localStorage.groq_model ELSE MODELS[1]
    /\ phase = IF variant = "phase" THEN "TOPIC_SETTING" ELSE "NONE"
    /\ topic = <<>>
    /\ history = <<>>
    /\ autoSpeak = TRUE
    /\ isSpeaking = FALSE
    /\ topicDisplay = <<>>
    /\ chat = IF variant = "phase"
              THEN renderMessage(<<>>, "system", StartMessage) ELSE <<>>
    /\ pending = {}
    /\ netCalls = 0
    /\ queue = <<>>
    /\ cancelled = FALSE
    /\ lastOp = Idle

conversation == <<phase, topic, history, topicDisplay, chat, pending, netCalls>>
settings == <<variant, apiKey, model, localStorage>>
narration == <<autoSpeak, isSpeaking, queue, cancelled>>

\* ------------------------------------------------------ settings --------
saveApiKey(raw) ==
    LET key == Trim(raw) IN
    /\ IF key # <<>>
       THEN /\ apiKey' = key
            /\ localStorage' = [localStorage EXCEPT !.groq_api_key = key]
       ELSE UNCHANGED <<apiKey, localStorage>>
    /\ UNCHANGED <<lastOp, variant, model, conversation, narration>>

\* the change listener of the model select
modelSelectChange(m) ==
    /\ model' = m
    /\ localStorage' = [localStorage EXCEPT !.groq_model = m]
    /\ UNCHANGED <<lastOp, variant, apiKey, conversation, narration>>

\* the change listener of the auto-speak toggle
autoSpeakToggle(checked) ==
    /\ autoSpeak' = checked
    /\ UNCHANGED <<lastOp, settings, conversation, isSpeaking, queue, cancelled>>

\* ------------------------------------------------------ submission ------
\* SendEmpty without its early return: the empty text is pushed
SendEmpty_FallsThrough(raw) ==
    /\ Trim(raw) = <<>>
    /\ history' = Append(history, Message("user", Trim(raw)))
    /\ lastOp' = Op("handleSend", raw, 0, NoResponse, NoAlert)
    /\ UNCHANGED <<settings, phase, topic, topicDisplay, chat, pending,
                   netCalls, narration>>

\* handleSend returns at once: the trimmed text is empty
SendEmpty(raw) ==
    /\ Trim(raw) = <<>>
    /\ lastOp' = Op("handleSend", raw, 0, NoResponse, NoAlert)
    /\ UNCHANGED <<settings, conversation, narration>>

\* SendNoKey without the key check: the message is pushed, no alert raised
SendNoKey_Proceeds(raw) ==
    /\ Trim(raw) # <<>>
    /\ apiKey = <<>>
    /\ history' = Append(history, Message("user", Trim(raw)))
    /\ lastOp' = Op("handleSend", raw, 0, NoResponse, NoAlert)
    /\ UNCHANGED <<settings, phase, topic, topicDisplay, chat, pending,
                   netCalls, narration>>

\* SendNoKey that stores the text as the topic before it looks at the key
SendNoKey_StoresTopic(raw) ==
    /\ Trim(raw) # <<>>
    /\ apiKey = <<>>
    /\ topic' = IF phase = "TOPIC_SETTING" THEN Trim(raw) ELSE topic
    /\ lastOp' = Op("handleSend", raw, 0, NoResponse, KeyMissingAlert(variant))
    /\ UNCHANGED <<settings, phase, history, topicDisplay, chat, pending,
                   netCalls, narration>>

\* handleSend alerts and returns: no API key
SendNoKey(raw) ==
    /\ Trim(raw) # <<>>
    /\ apiKey = <<>>
    /\ lastOp' = Op("handleSend", raw, 0, NoResponse, KeyMissingAlert(variant))
    /\ UNCHANGED <<settings, conversation, narration>>

\* setTopic that stores the topic and leaves the phase as it is
setTopic_PhaseUnset(text) ==
    LET h == Append(history, Message("user", BeginConsultation(text)))
        c1 == renderMessage(chat, "user", TopicLabel(text))
        c2 == renderMessage(c1, "system", TopicSetNotice(text))
    IN
    /\ topic' = text
    /\ topicDisplay' = <<"Topic: ">> \o text
    /\ history' = h
    /\ chat' = showLoading(c2)
    /\ netCalls' = netCalls + 1
    /\ pending' = pending \cup
          {Request(netCalls + 1, "handleDiscussionStart", variant, apiKey,
                   model, text, h)}
    /\ UNCHANGED <<phase, queue, cancelled>>

\* setTopic whose request is built from the topic held before the assignment
setTopic_StaleTopic(text) ==
    LET h == Append(history, Message("user", BeginConsultation(text)))
        c1 == renderMessage(chat, "user", TopicLabel(text))
        c2 == renderMessage(c1, "system", TopicSetNotice(text))
    IN
    /\ topic' = text
    /\ phase' = "HTF_DISCUSSION"
    /\ topicDisplay' = <<"Topic: ">> \o text
    /\ history' = h
    /\ chat' = showLoading(c2)
    /\ netCalls' = netCalls + 1
    /\ pending' = pending \cup
          {Request(netCalls + 1, "handleDiscussionStart", variant, apiKey,
                   model, topic, h)}
    /\ UNCHANGED <<queue, cancelled>>

\* setTopic that issues a request for the topic label and a second one for
\* the request to begin the consultation
setTopic_TwoCalls(text) ==
    LET h == Append(history, Message("user", BeginConsultation(text)))
        c1 == renderMessage(chat, "user", TopicLabel(text))
        c2 == renderMessage(c1, "system", TopicSetNotice(text))
    IN
    /\ topic' = text
    /\ phase' = "HTF_DISCUSSION"
    /\ topicDisplay' = <<"Topic: ">> \o text
    /\ history' = h
    /\ chat' = showLoading(showLoading(c2))
    /\ netCalls' = netCalls + 2
    /\ pending' = pending \cup
          {Request(netCalls + 1, "handleDiscussionStart", variant, apiKey,
                   model, text, h),
           Request(netCalls + 2, "handleDiscussionStart", variant, apiKey,
                   model, text, h)}
    /\ UNCHANGED <<queue, cancelled>>

\* setTopic(text), then handleDiscussionStart() up to its await
setTopic(text) ==
    LET h == Append(history, Message("user", BeginConsultation(text)))
        c1 == renderMessage(chat, "user", TopicLabel(text))
        c2 == renderMessage(c1, "system", TopicSetNotice(text))
    IN
    /\ topic' = text
    /\ phase' = "HTF_DISCUSSION"
    /\ topicDisplay' = <<"Topic: ">> \o text
    /\ history' = h
    /\ chat' = showLoading(c2)
    /\ netCalls' = netCalls + 1
    /\ pending' = pending \cup
          {Request(netCalls + 1, "handleDiscussionStart", variant, apiKey,
                   model, text, h)}
    /\ UNCHANGED <<queue, cancelled>>

\* SendChat that holds its request back while another one is in flight
SendChat_Queued(text) ==
    LET h == Append(history, Message("user", text))
        c1 == renderMessage(chat, "user", text)
        sp == IF variant = "simple" /\ autoSpeak
              THEN speakText(variant, text, queue, cancelled)
              ELSE [queue |-> queue, cancelled |-> cancelled, threw |-> FALSE]
    IN
    /\ history' = h
    /\ queue' = sp.queue
    /\ cancelled' = sp.cancelled
    /\ chat' = IF pending = {} THEN showLoading(c1) ELSE c1
    /\ netCalls' = netCalls + 1
    /\ pending' = IF pending = {}
                  THEN {Request(netCalls + 1, "handleSend", variant, apiKey,
                                model, topic, h)}
                  ELSE pending
    /\ UNCHANGED <<topic, phase, topicDisplay>>

\* SendChat that clears the topic before it builds its request
SendChat_ClearsTopic(text) ==
    LET h == Append(history, Message("user", text))
        c1 == renderMessage(chat, "user", text)
        sp == IF variant = "simple" /\ autoSpeak
              THEN speakText(variant, text, queue, cancelled)
              ELSE [queue |-> queue, cancelled |-> cancelled, threw |-> FALSE]
    IN
    /\ topic' = <<>>
    /\ history' = h
    /\ queue' = sp.queue
    /\ cancelled' = sp.cancelled
    /\ chat' = showLoading(c1)
    /\ netCalls' = netCalls + 1
    /\ pending' = pending \cup
          {Request(netCalls + 1, "handleSend", variant, apiKey, model,
                   <<>>, h)}
    /\ UNCHANGED <<phase, topicDisplay>>

\* SendChat that renders the user message and forgets to push it
SendChat_NoPush(text) ==
    /\ chat' = showLoading(renderMessage(chat, "user", text))
    /\ netCalls' = netCalls + 1
    /\ pending' = pending \cup
          {Request(netCalls + 1, "handleSend", variant, apiKey, model,
                   topic, history)}
    /\ UNCHANGED <<history, queue, cancelled, topic, phase, topicDisplay>>

\* handleSend in the discussion, up to its await
SendChat(text) ==
    LET h == Append(history, Message("user", text))
        c1 == renderMessage(chat, "user", text)
        sp == IF variant = "simple" /\ autoSpeak
              THEN speakText(variant, text, queue, cancelled)
              ELSE [queue |-> queue, cancelled |-> cancelled, threw |-> FALSE]
    IN
    /\ history' = h
    /\ queue' = sp.queue
    /\ cancelled' = sp.cancelled
    /\ chat' = showLoading(c1)
    /\ netCalls' = netCalls + 1
    /\ pending' = pending \cup
          {Request(netCalls + 1, "handleSend", variant, apiKey, model,
                   topic, h)}
    /\ UNCHANGED <<topic, phase, topicDisplay>>

\* handleSend with a text and a key
SendAccepted(raw) ==
    LET text == Trim(raw) IN
    /\ text # <<>>
    /\ apiKey # <<>>
    /\ netCalls < MaxTurns
    /\ IF phase = "TOPIC_SETTING" THEN setTopic(text) ELSE SendChat(text)
    /\ lastOp' = Op("handleSend", raw, netCalls + 1, NoResponse, NoAlert)
    /\ UNCHANGED <<settings, autoSpeak, isSpeaking>>

handleSend(raw) == SendEmpty(raw) \/ SendNoKey(raw) \/ SendAccepted(raw)

\* Continuation whose catch block stores the error as the assistant's reply
Continuation_ErrorAsReply(res) ==
    LET c1 == removeLoading(chat)
        c2 == renderMessage(c1, "assistant", res.value)
        sp == IF autoSpeak
              THEN speakText(variant, res.value, queue, cancelled)
              ELSE [queue |-> queue, cancelled |-> cancelled, threw |-> FALSE]
    IN
    IF res.threw
    THEN [history |-> Append(history,
                             Message("assistant", ErrorLine(res.value))),
          chat |-> renderMessage(c1, "system", ErrorLine(res.value)),
          queue |-> queue, cancelled |-> cancelled]
    ELSE [history |-> Append(history, Message("assistant", res.value)),
          chat |-> IF sp.threw
                   THEN renderMessage(removeLoading(c2), "system",
                                      ErrorLine(ReplaceOfUndefined))
                   ELSE c2,
          queue |-> sp.queue, cancelled |-> sp.cancelled]

\* Continuation that keeps a window of the last two messages of the history
Continuation_TrimsWindow(res) ==
    LET c1 == removeLoading(chat)
        c2 == renderMessage(c1, "assistant", res.value)
        h  == Append(history, Message("assistant", res.value))
        sp == IF autoSpeak
              THEN speakText(variant, res.value, queue, cancelled)
              ELSE [queue |-> queue, cancelled |-> cancelled, threw |-> FALSE]
    IN
    IF res.threw
    THEN [history |-> history,
          chat |-> renderMessage(c1, "system", ErrorLine(res.value)),
          queue |-> queue, cancelled |-> cancelled]
    ELSE [history |-> IF Len(h) > 2 THEN SubSeq(h, Len(h) - 1, Len(h)) ELSE h,
          chat |-> IF sp.threw
                   THEN renderMessage(removeLoading(c2), "system",
                                      ErrorLine(ReplaceOfUndefined))
                   ELSE c2,
          queue |-> sp.queue, cancelled |-> sp.cancelled]

\* Continuation whose catch block takes the user message of the turn back
Continuation_RollsBack(res) ==
    LET c1 == removeLoading(chat)
        c2 == renderMessage(c1, "assistant", res.value)
        sp == IF autoSpeak
              THEN speakText(variant, res.value, queue, cancelled)
              ELSE [queue |-> queue, cancelled |-> cancelled, threw |-> FALSE]
    IN
    IF res.threw
    THEN [history |-> SubSeq(history, 1, Len(history) - 1),
          chat |-> renderMessage(c1, "system", ErrorLine(res.value)),
          queue |-> queue, cancelled |-> cancelled]
    ELSE [history |-> Append(history, Message("assistant", res.value)),
          chat |-> IF sp.threw
                   THEN renderMessage(removeLoading(c2), "system",
                                      ErrorLine(ReplaceOfUndefined))
                   ELSE c2,
          queue |-> sp.queue, cancelled |-> sp.cancelled]

\* Continuation whose catch block pushes the error line into the history
Continuation_ErrorInHistory(res) ==
    LET c1 == removeLoading(chat)
        c2 == renderMessage(c1, "assistant", res.value)
        sp == IF autoSpeak
              THEN speakText(variant, res.value, queue, cancelled)
              ELSE [queue |-> queue, cancelled |-> cancelled, threw |-> FALSE]
    IN
    IF res.threw
    THEN [history |-> Append(history, Message("system", ErrorLine(res.value))),
          chat |-> renderMessage(c1, "system", ErrorLine(res.value)),
          queue |-> queue, cancelled |-> cancelled]
    ELSE [history |-> Append(history, Message("assistant", res.value)),
          chat |-> IF sp.threw
                   THEN renderMessage(removeLoading(c2), "system",
                                      ErrorLine(ReplaceOfUndefined))
                   ELSE c2,
          queue |-> sp.queue, cancelled |-> sp.cancelled]

\* the rest of handleSend and of handleDiscussionStart, from the await on,
\* for the outcome res of fetchGroqCompletion: the new history, chat and
\* narration queue
Continuation(res) ==
    LET c1 == removeLoading(chat)
        c2 == renderMessage(c1, "assistant", res.value)
        sp == IF autoSpeak
              THEN speakText(variant, res.value, queue, cancelled)
              ELSE [queue |-> queue, cancelled |-> cancelled, threw |-> FALSE]
    IN
    IF res.threw
    THEN [history |-> history,
          chat |-> renderMessage(c1, "system", ErrorLine(res.value)),
          queue |-> queue, cancelled |-> cancelled]
    ELSE [history |-> Append(history, Message("assistant", res.value)),
          chat |-> IF sp.threw
                   THEN renderMessage(removeLoading(c2), "system",
                                      ErrorLine(ReplaceOfUndefined))
                   ELSE c2,
          queue |-> sp.queue, cancelled |-> sp.cancelled]

\* the answer resp to the request r arrives
Respond(r, resp) ==
    LET next == Continuation(FetchResult(resp)) IN
    /\ pending' = pending \ {r}
    /\ history' = next.history
    /\ chat' = next.chat
    /\ queue' = next.queue
    /\ cancelled' = next.cancelled
    /\ lastOp' = Op("response", NoText, r.id, resp, NoAlert)
    /\ UNCHANGED <<settings, phase, topic, topicDisplay, netCalls, autoSpeak,
                   isSpeaking>>

\* ------------------------------------------------------ narration -------
\* the messages whose speak button the user presses: the newest one
ClickTargets(c) ==
    {i \in 1..Len(c) : /\ c[i].id # "loading-indicator"
                       /\ \A j \in (i + 1)..Len(c) : c[j].id = "loading-indicator"}

\* the speak button of the i-th element of the chat
speakButton(i) ==
    LET sp == speakText(variant, chat[i].content, queue, cancelled) IN
    /\ chat[i].id # "loading-indicator"
    /\ queue' = sp.queue
    /\ cancelled' = sp.cancelled
    /\ UNCHANGED <<lastOp, settings, conversation, autoSpeak, isSpeaking>>

stopSpeaking ==
    LET c == Cancel(variant, queue, cancelled) IN
    /\ queue' = c.queue
    /\ cancelled' = c.cancelled
    /\ isSpeaking' = IF variant = "simple" THEN FALSE ELSE isSpeaking
    /\ UNCHANGED <<lastOp, settings, conversation, autoSpeak>>

\* the engine starts the utterance at the head of its queue: onstart
UtteranceStart ==
    /\ queue # <<>>
    /\ ~queue[1].started
    /\ queue' = [queue EXCEPT ![1].started = TRUE]
    /\ isSpeaking' = IF variant = "simple" THEN TRUE ELSE isSpeaking
    /\ UNCHANGED <<lastOp, settings, conversation, autoSpeak, cancelled>>

\* the engine finishes the utterance it speaks: onend
UtteranceEnd ==
    /\ queue # <<>>
    /\ queue[1].started
    /\ queue' = Tail(queue)
    /\ isSpeaking' = IF variant = "simple" THEN FALSE ELSE isSpeaking
    /\ UNCHANGED <<lastOp, settings, conversation, autoSpeak, cancelled>>

\* the engine fails on the utterance at the head of its queue: onerror
UtteranceError ==
    /\ queue # <<>>
    /\ queue' = Tail(queue)
    /\ isSpeaking' = IF variant = "simple" THEN FALSE ELSE isSpeaking
    /\ UNCHANGED <<lastOp, settings, conversation, autoSpeak, cancelled>>

\* the engine fires the last event (end or error) of a cancelled utterance
CancelledEvent ==
    /\ cancelled
    /\ cancelled' = FALSE
    /\ isSpeaking' = IF variant = "simple" THEN FALSE ELSE isSpeaking
    /\ UNCHANGED <<lastOp, settings, conversation, autoSpeak, queue>>

Next ==
    \/ \E raw \in RawKeys : saveApiKey(raw)
    \/ \E m \in PickedModels : modelSelectChange(m)
    \/ \E b \in BOOLEAN : autoSpeakToggle(b)
    \/ \E raw \in RawTexts : handleSend(raw)
    \/ \E r \in pending, resp \in Responses : Respond(r, resp)
    \/ \E i \in ClickTargets(chat) : speakButton(i)
    \/ stopSpeaking
    \/ UtteranceStart
    \/ UtteranceEnd
    \/ UtteranceError
    \/ CancelledEvent

Spec == Init /\ [][Next]_vars

\* the endpoint, or the network, answers every request in the end
Answers(id) == \E r \in pending, resp \in Responses : r.id = id /\ Respond(r, resp)

FairSpec == Spec /\ \A id \in 1..MaxTurns : WF_vars(Answers(id))

\* ------------------------------------------- narration of a reply -------
\* the fragments a reply is put together from: the two tags of a thinking
\* block, a markup character and two letters
Pieces == {ThinkOpen, ThinkClose, <<"#">>, <<"s">>, <<"H">>}

\* the sequences of at most MaxPieces fragments
PieceSeqs == UNION {[1..n -> Pieces] : n \in 0..MaxPieces}

RECURSIVE Flatten(_)
Flatten(ps) == IF ps = <<>> THEN <<>> ELSE Head(ps) \o Flatten(Tail(ps))

\* the replies of the endpoint that are narrated
SpokenReplies == {Flatten(ps) : ps \in PieceSeqs}

\* the phase variant after its first turn, answered with the reply t while
\* auto-speak was switched off: t is stored, displayed and not yet narrated
InitSpeak ==
    \E t \in SpokenReplies :
        LET tp == <<"a", " ", "b">>
            c1 == renderMessage(<<>>, "system", StartMessage)
            c2 == renderMessage(c1, "user", TopicLabel(tp))
            c3 == renderMessage(c2, "system", TopicSetNotice(tp))
        IN
        /\ variant = "phase"
        /\ localStorage = [groq_api_key |-> <<"k">>,
                           groq_model |-> MODELS[1]]
        /\ apiKey = <<"k">>
        /\ model = MODELS[1]
        /\ phase = "HTF_DISCUSSION"
        /\ topic = tp
        /\ history = << Message("user", BeginConsultation(tp)),
                        Message("assistant", t) >>
        /\ autoSpeak = FALSE
        /\ isSpeaking = FALSE
        /\ topicDisplay = <<"Topic: ">> \o tp
        /\ chat = renderMessage(c3, "assistant", t)
        /\ pending = {}
        /\ netCalls = 1
        /\ queue = <<>>
        /\ cancelled = FALSE
        /\ lastOp = Op("response", NoText, 1,
                       [kind |-> "http", ok |-> TRUE, shape |-> "completion",
                        text |-> t], NoAlert)

\* the user presses the speak button of the reply or the stop button, and
\* the engine sends its signals
NextSpeak ==
    \/ \E i \in ClickTargets(chat) : speakButton(i)
    \/ stopSpeaking
    \/ UtteranceStart
    \/ UtteranceEnd
    \/ UtteranceError

SpecSpeak == InitSpeak /\ [][NextSpeak]_vars

\* ------------------------------------------------------ properties ------
\* this step is a run of handleSend
SendStep == lastOp' # lastOp /\ lastOp'.op = "handleSend"

\* this step is the continuation of a request that was answered
ResponseStep == lastOp' # lastOp /\ lastOp'.op = "response"

\* the request whose answer this step handles
Answered == CHOOSE r \in pending : r.id = lastOp'.req

InDiscussion == variant = "simple" \/ phase = "HTF_DISCUSSION"

\* the text of the submission of this step, trimmed
Submitted == Trim(lastOp'.text)

\* this step is a submission the controller takes up
AcceptedStep == SendStep /\ Submitted # <<>> /\ apiKey # <<>>

\* the answer of this step is a successful completion
Succeeded == lastOp'.resp.ok /\ lastOp'.resp.shape = "completion"

\* C1: a submission with a non-empty trimmed text, made with a key in the
\* discussion, appends exactly one user message holding the trimmed text; a
\* successful answer to its request appends exactly one assistant message
\* holding the reply, behind the user message of that turn; nothing else
\* ever changes the history.
C1_TurnAppends ==
    [][ /\ (AcceptedStep /\ InDiscussion)
           => history' = Append(history, Message("user", Submitted))
        /\ (ResponseStep /\ Succeeded)
           => LET r == Answered
                  u == Len(r.messages) - 1
              IN /\ history' = Append(history,
                                      Message("assistant", lastOp'.resp.text))
                 /\ u >= 1 /\ u < Len(history')
                 /\ history'[u] = r.messages[u + 1]
                 /\ history'[u].role = "user"
        /\ (history' # history) => (AcceptedStep \/ ResponseStep) ]_vars

C1_Witness ==
    /\ variant = "simple"
    /\ lastOp.op = "response" /\ lastOp.resp.shape = "completion"
    /\ history = << Message("user", <<"a", " ", "b">>),
                    Message("assistant", lastOp.resp.text) >>

\* C2: a submission that is empty after trimming changes neither the
\* history, the phase, the topic nor the chat, and issues no request.
C2_EmptyIsNoOp ==
    [][ (SendStep /\ Submitted = <<>>)
        => UNCHANGED <<history, phase, topic, topicDisplay, chat, pending,
                       netCalls, settings, narration>> ]_vars

C2_Witness ==
    /\ lastOp.op = "handleSend" /\ lastOp.text # <<>>
    /\ Trim(lastOp.text) = <<>>
    /\ phase = "HTF_DISCUSSION" /\ history # <<>> /\ apiKey # <<>>

\* C3: without an API key a submission with a text changes neither the
\* phase, the topic nor the history, issues no request, and raises the alert
\* that asks for a key.
C3_NoKeyNoTransition ==
    [][ (SendStep /\ Submitted # <<>> /\ apiKey = <<>>)
        => /\ UNCHANGED <<history, phase, topic, topicDisplay, chat, pending,
                          netCalls>>
           /\ lastOp'.alert # NoAlert
           /\ lastOp'.alert = KeyMissingAlert(variant) ]_vars

C3_Witness ==
    /\ apiKey = <<>> /\ lastOp.op = "handleSend"
    /\ Trim(lastOp.text) # <<>> /\ lastOp.alert = KeyMissingAlert(variant)
    /\ history = <<>> /\ netCalls = 0

SystemRoles(ms) == {i \in 1..Len(ms) : ms[i].role = "system"}

\* C4: the messages of every request issued are one system message followed
\* by the whole history as it stands at that moment: the only system message
\* is the first one.
C4_PayloadShape ==
    [][ \A r \in pending' \ pending :
          /\ Len(r.messages) = Len(history') + 1
          /\ SystemRoles(r.messages) = {1}
          /\ \A i \in 1..Len(history') : r.messages[i + 1] = history'[i] ]_vars

C4_Witness ==
    \E r \in pending : Len(r.messages) >= 4 /\ r.messages[4].role = "user"

\* C5: the history never holds a system-role message.
C5_NoSystemInHistory == \A i \in 1..Len(history) : history[i].role # "system"

C5_Witness ==
    /\ history # <<>>
    /\ \E i \in 1..Len(chat) :
          /\ chat[i].cls = "system"
          /\ chat[i].content = ErrorLine(<<"invalid_api_key">>)
    /\ lastOp.op = "response"

\* the topic-setting submission: the first one the phase variant takes up
TopicStep == AcceptedStep /\ phase = "TOPIC_SETTING"

\* C6 as stated: the phase only ever moves from TOPIC_SETTING to HTF_DISCUSSION,
\* and the submission that moves it is the first one with a non-empty text: no
\* run of handleSend with a text is on record before it.
C6_Original ==
    [][ (phase' # phase)
        => /\ phase = "TOPIC_SETTING" /\ phase' = "HTF_DISCUSSION"
           /\ SendStep /\ Submitted # <<>>
           /\ ~(lastOp.op = "handleSend" /\ Trim(lastOp.text) # <<>>) ]_vars

\* C6 amended: the phase only ever moves from TOPIC_SETTING to HTF_DISCUSSION
\* (never back, so at most once), and the step that moves it is the first
\* submission with a non-empty text that is made while an API key is set; that
\* submission always moves it.
C6_FirstAcceptedMovesPhase ==
    [][ /\ (phase' # phase)
           => /\ phase = "TOPIC_SETTING" /\ phase' = "HTF_DISCUSSION"
              /\ AcceptedStep
              /\ netCalls = 0 /\ history = <<>>
        /\ (AcceptedStep /\ variant = "phase" /\ netCalls = 0)
           => (phase = "TOPIC_SETTING" /\ phase' = "HTF_DISCUSSION")
        /\ (AcceptedStep /\ netCalls > 0) => phase' = phase ]_vars

C6_Witness ==
    /\ variant = "phase" /\ phase = "HTF_DISCUSSION"
    /\ netCalls = 2 /\ lastOp.op = "handleSend" /\ lastOp.req = 2
    /\ Len(history) = 3

\* C7: in a fresh session of the phase variant the topic-setting submission
\* stores the trimmed text as the topic, moves the phase to HTF_DISCUSSION,
\* renders the topic label and the topic notice without pushing them, pushes
\* exactly one user message, the request to begin the consultation, and issues
\* exactly one request whose system prompt holds the topic.
C7_TopicTurn ==
    [][ TopicStep
        => /\ topic' = Submitted
           /\ phase' = "HTF_DISCUSSION"
           /\ \E i \in 1..Len(chat') :
                 /\ i > Len(chat)
                 /\ chat'[i].cls = "user"
                 /\ chat'[i].content = TopicLabel(Submitted)
           /\ \E i \in 1..Len(chat') :
                 /\ i > Len(chat)
                 /\ chat'[i].cls = "system"
                 /\ chat'[i].content = TopicSetNotice(Submitted)
           /\ history = <<>>
           /\ Len(history') = 1
           /\ history'[1].role = "user"
           /\ history'[1].content = BeginConsultation(Submitted)
           /\ netCalls' = netCalls + 1
           /\ Cardinality(pending' \ pending) = 1
           /\ \A r \in pending' \ pending :
                 /\ r.messages[1].role = "system"
                 /\ Contains(r.messages[1].content, Submitted)
                 /\ Len(r.messages) = 2
                 /\ r.messages[2] = history'[1] ]_vars

C7_Witness ==
    /\ variant = "phase" /\ phase = "HTF_DISCUSSION"
    /\ topic = <<"a", " ", "b">>
    /\ lastOp.op = "handleSend" /\ lastOp.req = 1
    /\ history = <<Message("user", BeginConsultation(topic))>>
    /\ Cardinality(pending) = 1

\* C8 as stated: a submission taken up in the discussion issues one request,
\* the topic-setting submission issues two.
C8_Original ==
    [][ /\ (AcceptedStep /\ InDiscussion) => netCalls' = netCalls + 1
        /\ TopicStep => netCalls' = netCalls + 2 ]_vars

\* C8 amended: every submission that is taken up issues exactly one request,
\* the topic-setting one included, and no other step issues any.
C8_OneCallPerTurn ==
    [][ /\ AcceptedStep
           => /\ netCalls' = netCalls + 1
              /\ pending \subseteq pending'
              /\ Cardinality(pending' \ pending) = 1
        /\ ~AcceptedStep
           => /\ netCalls' = netCalls
              /\ pending' \subseteq pending ]_vars

C8_Witness ==
    /\ variant = "phase" /\ phase = "HTF_DISCUSSION"
    /\ netCalls = 1 /\ pending = {}
    /\ lastOp.op = "response" /\ lastOp.req = 1
    /\ Len(history) = 2 /\ history[2].role = "assistant"

SystemLines(c) == {i \in 1..Len(c) : c[i].cls = "system"}

\* the answer of this step is a failure: no success status, a body without
\* the content, or no answer at all
Failed == ResponseStep /\ ~Succeeded

\* the answer of this step has no success status
ApiError == ResponseStep /\ lastOp'.resp.kind = "http" /\ ~lastOp'.resp.ok

\* C9 as stated: a failed request shows exactly one more system-role line,
\* "Error: " with the error text (the error.message of the endpoint when there
\* is one, else the fallback text), appends nothing to the history, which is
\* as it was when the request was issued, and leaves the phase alone.
C9_Original ==
    [][ Failed
        => LET r == Answered
               resp == lastOp'.resp
           IN /\ Cardinality(SystemLines(chat'))
                    = Cardinality(SystemLines(chat)) + 1
              /\ chat'[Len(chat')].cls = "system"
              /\ chat'[Len(chat')].content[1] = "Error: "
              /\ ApiError
                 => chat'[Len(chat')].content
                       = ErrorLine(IF resp.shape = "error" THEN resp.text
                                   ELSE ApiRequestFailed)
              /\ history' = history
              /\ history' = Tail(r.messages)
              /\ phase' = phase ]_vars

\* the history as it was before the submission that issued the request r
HistoryBefore(r) == SubSeq(r.messages, 2, Len(r.messages) - 1)

\* C10 as stated: after a turn that ends in an ApiError the history, the
\* phase and the topic are what they were before the submission of that turn.
C10_Original ==
    [][ ApiError
        => LET r == Answered
               first == r.caller = "handleDiscussionStart"
           IN /\ history' = HistoryBefore(r)
              /\ phase' = IF first THEN "TOPIC_SETTING" ELSE phase
              /\ topic' = IF first THEN <<>> ELSE topic ]_vars

\* C10 amended: handling an ApiError changes neither the history, the phase
\* nor the topic and adds the error line to the chat, but nothing is taken
\* back: the history as it was when the request was issued, the user message
\* of the turn at its end, is still the beginning of the history, and after
\* the topic-setting submission the phase stays HTF_DISCUSSION and the topic
\* stays the one sent in the request.
C10_ErrorKeepsTurn ==
    [][ ApiError
        => LET r == Answered
               n == Len(r.messages) - 1
           IN /\ UNCHANGED <<history, phase, topic>>
              /\ n >= 1 /\ Len(history') >= n
              /\ \A i \in 1..n : history'[i] = r.messages[i + 1]
              /\ history'[n].role = "user"
              /\ InDiscussion'
              /\ r.messages[1].content = SystemContent(variant, topic')
              /\ variant = "phase" => topic' # <<>>
              /\ chat'[Len(chat')].cls = "system"
              /\ chat'[Len(chat')].content
                    = ErrorLine(IF lastOp'.resp.shape = "error"
                                THEN lastOp'.resp.text
                                ELSE ApiRequestFailed) ]_vars

C10_Witness ==
    /\ variant = "phase" /\ phase = "HTF_DISCUSSION"
    /\ topic = <<"a", " ", "b">>
    /\ lastOp.op = "response" /\ lastOp.req = 1
    /\ lastOp.resp.kind = "http" /\ ~lastOp.resp.ok
    /\ history = <<Message("user", BeginConsultation(topic))>>
    /\ pending = {}
    /\ chat[Len(chat)].content = ErrorLine(<<"invalid_api_key">>)

\* the answer of this step has a success status and a body that lacks the
\* content somewhere on the path choices[0].message.content
Malformed ==
    /\ ResponseStep
    /\ lastOp'.resp.kind = "http" /\ lastOp'.resp.ok
    /\ lastOp'.resp.shape # "completion"

\* C11 as stated: a success status with a body that lacks the content field
\* ends the turn like an ApiError: a system-role error line is shown last in
\* the chat and no assistant message is appended to the history.
C11_Original ==
    [][ Malformed
        => /\ history' = history
           /\ chat'[Len(chat')].cls = "system"
           /\ chat'[Len(chat')].content[1] = "Error: " ]_vars

\* C12: in the phase variant, while the phase is TOPIC_SETTING the topic is
\* the empty string and the history holds no assistant message.
C12_TopicSettingIsBlank ==
    (variant = "phase" /\ phase = "TOPIC_SETTING")
    => /\ topic = <<>>
       /\ \A i \in 1..Len(history) : history[i].role # "assistant"

C12_Witness ==
    /\ variant = "phase" /\ phase = "TOPIC_SETTING"
    /\ lastOp.op = "handleSend" /\ lastOp.alert # NoAlert
    /\ Trim(lastOp.text) # <<>>
    /\ apiKey # <<>>

\* C13: the topic is assigned only by the submission that moves the phase to
\* HTF_DISCUSSION, when it is still empty; in the discussion no step changes
\* it, and the system prompt of every request in flight holds the topic of
\* the session.
C13_TopicImmutable ==
    [][ /\ (topic' # topic)
           => /\ TopicStep /\ topic = <<>>
              /\ phase' = "HTF_DISCUSSION" /\ topic' = Submitted
        /\ phase = "HTF_DISCUSSION" => topic' = topic
        /\ \A r \in pending' :
              r.messages[1].content = SystemContent(variant, topic') ]_vars

C13_Witness ==
    /\ variant = "phase" /\ topic = <<"a", " ", "b">>
    /\ netCalls = 2 /\ Cardinality(pending) = 1
    /\ lastOp.op = "response" /\ lastOp.req = 1 /\ ~lastOp.resp.ok
    /\ \A r \in pending :
          /\ r.caller = "handleSend"
          /\ Contains(r.messages[1].content, topic)

\* C14: the history is append-only: in every step the history before the
\* step is a prefix of the history after it, so no stored message is
\* altered, reordered or removed.
C14_AppendOnly ==
    [][ /\ Len(history') >= Len(history)
        /\ SubSeq(history', 1, Len(history)) = history ]_vars

C14_Witness ==
    /\ Len(history) = 3
    /\ history[1].role = "user" /\ history[2].role = "assistant"
    /\ history[3].role = "user"
    /\ lastOp.op = "response" /\ lastOp.req = 2
    /\ lastOp.resp.kind = "network_failure"
    /\ pending = {}

\* C15 as stated: the engine never holds more than one utterance, and an
\* utterance that a later speak call cancelled produces no further event: the
\* handlers of a cancelled utterance never run.
C15_Original ==
    [][ /\ Len(queue') <= 1
        /\ ~(cancelled /\ ~cancelled') ]_vars

\* this step is a step of the narration: a speak button, the stop button or
\* a signal of the engine
NarrationStep ==
    /\ lastOp' = lastOp
    /\ <<queue, cancelled, isSpeaking>>' # <<queue, cancelled, isSpeaking>>

\* C16 as stated: a step of the narration leaves the history, the phase, the
\* topic, the key, the model, the chat and the requests alone; no failure of
\* the narration is ever shown in the chat; and a submission that is taken up
\* issues its request whatever the narration does.
C16_Original ==
    [][ /\ NarrationStep
           => UNCHANGED <<history, phase, topic, apiKey, model, chat,
                          pending, netCalls>>
        /\ \A i \in 1..Len(chat') :
              chat'[i].content # ErrorLine(ReplaceOfUndefined)
        /\ AcceptedStep => Cardinality(pending' \ pending) = 1 ]_vars

\* the text s cut into its fragments: a tag of a thinking block is one
\* fragment, any other character is one
RECURSIVE Tokenize(_)
Tokenize(s) ==
    IF s = <<>> THEN <<>>
    ELSE IF MatchAt(s, ThinkOpen, 1)
    THEN <<ThinkOpen>> \o Tokenize(SubSeq(s, Len(ThinkOpen) + 1, Len(s)))
    ELSE IF MatchAt(s, ThinkClose, 1)
    THEN <<ThinkClose>> \o Tokenize(SubSeq(s, Len(ThinkClose) + 1, Len(s)))
    ELSE <<<<Head(s)>>>> \o Tokenize(Tail(s))

\* what is to be narrated of the fragments ts: a thinking block, from an
\* opening tag to the first closing tag behind it, is left out with all it
\* holds, and so is every markup character
RECURSIVE Narrated(_)
Narrated(ts) ==
    IF ts = <<>> THEN <<>>
    ELSE LET closes == {j \in 2..Len(ts) : ts[j] = ThinkClose} IN
         IF Head(ts) = ThinkOpen /\ closes # {}
         THEN LET j == CHOOSE k \in closes : \A m \in closes : k <= m
              IN Narrated(SubSeq(ts, j + 1, Len(ts)))
         ELSE IF Len(Head(ts)) = 1 /\ Head(ts)[1] \in {"*", "#", Backquote}
         THEN Narrated(Tail(ts))
         ELSE Head(ts) \o Narrated(Tail(ts))

\* C17: in the phase variant the text handed to the engine is the content of
\* the message without its thinking blocks, tags and contents, and without
\* the characters *, # and backquote; the reply <think>s</think>H is
\* narrated as H; narration changes neither the stored nor the displayed
\* content.
C17_NarratedText ==
    [][ /\ queue' # <<>>
           => /\ Len(queue') = 1
              /\ queue'[1].text = Narrated(Tokenize(chat'[Len(chat')].content))
              /\ chat'[Len(chat')].content
                    = ThinkOpen \o <<"s">> \o ThinkClose \o <<"H">>
                 => queue'[1].text = <<"H">>
        /\ history' = history
        /\ chat' = chat
        /\ history'[Len(history')].content = chat'[Len(chat')].content ]_vars

C17_Witness ==
    /\ variant = "phase"
    /\ chat[Len(chat)].cls = "ai"
    /\ chat[Len(chat)].content
          = ThinkOpen \o <<"s">> \o ThinkClose \o <<"H">>
    /\ history[Len(history)].content = chat[Len(chat)].content
    /\ queue # <<>> /\ queue[1].text = <<"H">> /\ queue[1].started

\* C18: a submission taken up while a request is in flight appends its user
\* message and issues its own request in the same step, the earlier requests
\* staying in flight; the payload of the new request is the history with the
\* new user message, and when no answer has arrived since the submission
\* before, its last two messages are both user messages; a successful answer
\* appends its reply at the end of the history, whichever request it answers.
C18_SecondSendUnguarded ==
    [][ /\ (AcceptedStep /\ pending # {})
           => /\ history' = Append(history, Message("user", Submitted))
              /\ pending \subseteq pending'
              /\ Cardinality(pending') = Cardinality(pending) + 1
              /\ \A r \in pending' \ pending :
                    /\ Tail(r.messages) = history'
                    /\ history[Len(history)].role = "user"
                       => /\ r.messages[Len(r.messages) - 1].role = "user"
                          /\ r.messages[Len(r.messages)].role = "user"
        /\ (ResponseStep /\ Succeeded)
           => history' = Append(history,
                                Message("assistant", lastOp'.resp.text)) ]_vars

C18_Witness ==
    /\ Cardinality(pending) = 1
    /\ \A r \in pending : r.id = 1
    /\ lastOp.op = "response" /\ lastOp.req = 2
    /\ lastOp.resp.shape = "completion"
    /\ Len(history) = 3
    /\ history[1].role = "user" /\ history[2].role = "user"
    /\ history[3] = Message("assistant", lastOp.resp.text)

\* number of messages of the role in the history h
CountRole(h, role) == Cardinality({i \in 1..Len(h) : h[i].role = role})

\* the request answered in this step returned: the status is a success and
\* the body can be read up to choices[0].message
Returned ==
    /\ lastOp'.resp.kind = "http" /\ lastOp'.resp.ok
    /\ lastOp'.resp.shape \in {"completion", "no_content"}

Loaders(c) == Cardinality({i \in 1..Len(c) : c[i].id = "loading-indicator"})

InFlight(id) == \E r \in pending : r.id = id

\* C20 as stated: when every request is answered in the end, every request
\* issued ends; its end is exactly one of an assistant message appended to
\* the history and a system-role error line shown, takes its loading
\* indicator away, leaves the phase, and issues no further request; and
\* with a key set a submission is taken up in every state.
C20_Original ==
    /\ \A id \in 1..MaxTurns : InFlight(id) ~> ~InFlight(id)
    /\ [][ ResponseStep
           => LET appended ==
                    /\ Len(history') = Len(history) + 1
                    /\ history'[Len(history')].role = "assistant"
                  shown ==
                    Cardinality(SystemLines(chat'))
                       = Cardinality(SystemLines(chat)) + 1
              IN /\ appended \/ shown
                 /\ ~(appended /\ shown)
                 /\ ~appended => history' = history
                 /\ ~shown => SystemLines(chat') = SystemLines(chat)
                 /\ Loaders(chat') = Loaders(chat) - 1
                 /\ phase' = phase
                 /\ netCalls' = netCalls
                 /\ pending' = pending \ {Answered} ]_vars
    /\ []((apiKey # <<>> /\ netCalls < MaxTurns)
          => ENABLED (\E raw \in RawTexts : SendAccepted(raw)))

====
